---------------------------- MODULE Spec2Model ----------------------------
(***************************************************************************)
(* State-machine model of the sail navigation core:                        *)
(*   Navigation  (src/src/core/navigation.js)  route and active waypoint   *)
(*   GPSTracker  (src/src/core/gps.js)         fixes, smoothing, track     *)
(*   BoatPolar   (src/src/core/polar.js)       polar table and lookup      *)
(*   SailNavApp  (src/unnamed/part_004)        the wiring between them     *)
(*                                                                         *)
(* Fixed point.  JavaScript numbers are doubles; the model uses integers:  *)
(*   positions   <<lat, lon>> on a plane, unit 0.01 nm (short range)       *)
(*   distances   milli-nm (0.001 nm), floor of the square root             *)
(*   angles      half-degrees (0..719 is [0,360)), floor                   *)
(*   speed       milli-knots; boat speeds of the polar in centi-knots      *)
(*   time        milliseconds                                              *)
(***************************************************************************)
EXTENDS Integers, Sequences, FiniteSets, TLC

VARIABLES
  \* Navigation
  waypoints, activeWaypointIndex,
  \* SailNavApp / environment of Navigation
  currentPosition, navOut,
  \* GPSTracker
  position, previousPosition, watchId, listeners, trackHistory,
  sogBuffer, cogBuffer,
  \* the platform's geolocation service, what GPSTracker last told its
  \* listeners, and the log of the fixes handled so far
  watches, watchCount, pending, fixCount, gpsOut, processed,
  \* BoatPolar, and what its latest operation was given and returned
  boatLength, boatType, polarData, customPolar, polarOut,
  \* what the latest navigation, wind or steering calculation was given and
  \* returned
  calcOut,
  \* SailNavApp's weather throttle: the clock (hours), lastWeatherFetch, the
  \* fetches in flight and the log of the times fetches were started
  weatherClock, lastWeatherFetch, weatherPending, fetchStarts

calcVars == <<calcOut>>
weatherVars == <<weatherClock, lastWeatherFetch, weatherPending, fetchStarts>>
navVars == <<waypoints, activeWaypointIndex, currentPosition, navOut>>
trackerVars == <<position, previousPosition, trackHistory, sogBuffer, cogBuffer,
                 gpsOut, processed>>
polarVars == <<boatLength, boatType, polarData, customPolar, polarOut>>
watchVars == <<watchId, listeners, watches, watchCount, pending, fixCount>>
gpsVars == <<position, previousPosition, watchId, listeners, trackHistory,
             sogBuffer, cogBuffer, watches, watchCount, pending, fixCount,
             gpsOut, processed>>

-----------------------------------------------------------------------------
(* Bounds of the model *)

MaxWaypoints == 3
MaxClock == 8            \* hours the clock of SpecWeather runs
MaxFetches == 3          \* weather fetches started in SpecWeather
MaxPlatformFixes == 2    \* fixes the platform produces in SpecGPS
MaxWatches == 2          \* watchPosition registrations in SpecGPS
MaxListeners == 1        \* onUpdate registrations in SpecGPS
MaxSmoothFixes == 12     \* fixes handled in SpecSmooth
MaxTrackFixes == 1002    \* fixes handled in SpecTrack

-----------------------------------------------------------------------------
(* Arithmetic helpers *)

Abs(x) == IF x < 0 THEN -x ELSE x
Min(a, b) == IF a <= b THEN a ELSE b
Max(a, b) == IF a >= b THEN a ELSE b

RECURSIVE Isqrt(_)
\* floor(sqrt(n)): Math.sqrt in fixed point
Isqrt(n) ==
  IF n < 2 THEN n
  ELSE LET s == 2 * Isqrt(n \div 4)
       IN  IF (s + 1) * (s + 1) <= n THEN s + 1 ELSE s

\* JavaScript Math.round on a quotient n/d (d > 0): floor(n/d + 1/2)
RoundDiv(n, d) == (2 * n + d) \div (2 * d)

NoPos == <<>>   \* null position

\* Places on the chart, <<lat, lon>> in 0.01 nm
PtA == <<0, 0>>
PtB == <<0, 300>>
PtC == <<300, 300>>
WptPoints == {PtA, PtB, PtC}
\* Boat positions: on leg A-B 0.02 nm short of B, 0.1 nm off the middle of leg
\* A-B, 0.03 nm from C, and far from everything
BoatPoints == {<<0, 298>>, <<10, 150>>, <<300, 297>>, <<900, 900>>}
\* Values Date.now() returns (ms); two calls in the same millisecond read the
\* same value
Times == {0, 1}

-----------------------------------------------------------------------------
(* Navigation: geometry *)

\* Navigation.calculateDistance in milli-nm (plane in place of the sphere)
calculateDistance(p, q) ==
  Isqrt(((p[1] - q[1]) * (p[1] - q[1]) + (p[2] - q[2]) * (p[2] - q[2])) * 100)

WptPos(w) == <<w.lat, w.lon>>

\* Navigation.distanceToLeg: beyond either end the nearer endpoint, else the
\* perpendicular distance d1p * |sin(bearing1p - bearing12)| = |cross| / d12
distanceToLeg(pos, fromWpt, toWpt) ==
  LET a == WptPos(fromWpt)
      b == WptPos(toWpt)
      d12 == calculateDistance(a, b)
      d1p == calculateDistance(a, pos)
      d2p == calculateDistance(b, pos)
      cross == (b[1] - a[1]) * (pos[2] - a[2]) - (b[2] - a[2]) * (pos[1] - a[1])
  IN  IF d1p > d12 \/ d2p > d12 THEN Min(d1p, d2p)
      ELSE IF d12 = 0 THEN 0
      ELSE (Abs(cross) * 100) \div d12

ReachRadius == 50        \* 0.05 nm in milli-nm
LegSwitchRadius == 1000  \* 1.0 nm in milli-nm

RECURSIVE ClosestLeg(_, _, _, _, _)
\* The loop of updateActiveWaypoint from leg i on: <<closestLegIndex, minDistance>>;
\* minDistance -1 stands for Infinity
ClosestLeg(wps, pos, i, closest, minD) ==
  IF i > Len(wps) - 1 THEN <<closest, minD>>
  ELSE LET d == distanceToLeg(pos, wps[i], wps[i + 1])
       IN  IF minD = -1 \/ d < minD
           THEN ClosestLeg(wps, pos, i + 1, i, d)
           ELSE ClosestLeg(wps, pos, i + 1, closest, minD)

\* Navigation.updateActiveWaypoint: the new activeWaypointIndex (0-based, as in
\* the source; the sequence wps is 1-based, so leg i of the source is
\* wps[i+1] -> wps[i+2] and its "to" index is i+1)
updateActiveWaypointAnyDistance(wps, idx, pos) ==
  IF Len(wps) < 2 THEN idx
  ELSE LET r == ClosestLeg(wps, pos, 1, 0, -1)
       IN  IF Abs(r[1] - idx) > 0 THEN r[1] ELSE idx
updateActiveWaypoint(wps, idx, pos) ==
  IF Len(wps) < 2 THEN idx
  ELSE LET r == ClosestLeg(wps, pos, 1, 0, -1)
       IN  IF Abs(r[1] - idx) > 0 /\ r[2] < LegSwitchRadius THEN r[1] ELSE idx

\* navigation.js:72-74, the reaching check
ReachingCheckWrong(wps, idx, distance) ==
  IF distance < ReachRadius THEN idx + 1 ELSE idx
ReachingCheck(wps, idx, distance) ==
  IF distance < ReachRadius /\ idx < Len(wps) - 1 THEN idx + 1 ELSE idx

\* Navigation.getActiveWaypoint: 0 stands for null, else the 1-based place
getActiveWaypoint(wps, idx) ==
  IF idx >= 0 /\ idx < Len(wps) THEN idx + 1 ELSE 0

\* navOut holds what the latest operation returned when that operation was
\* calculateNavigationData, and NoNavOut after any other operation; before is
\* activeWaypointIndex on entry, legIndex after updateActiveWaypoint and
\* activeIndex after the reaching check
NoNavOut ==
  [ret |-> "none", waypointId |-> -1, waypointAt |-> -1, dist |-> -1, dtw |-> -1,
   legIndex |-> -1, activeIndex |-> -1, totalWaypoints |-> -1, before |-> -1]

\* Navigation.calculateNavigationData: <<new activeWaypointIndex, result>>.
\* A null position with two or more waypoints throws a TypeError inside
\* updateActiveWaypoint (currentPosition.lat), before any assignment.
calculateNavigationData(wps, idx, pos) ==
  IF pos = NoPos /\ Len(wps) >= 2
  THEN <<idx, [NoNavOut EXCEPT !.ret = "throw"]>>
  ELSE
    LET idx1 == IF Len(wps) > 0 /\ pos # NoPos
                THEN updateActiveWaypoint(wps, idx, pos) ELSE idx
        k == getActiveWaypoint(wps, idx1)
    IN  IF k = 0 \/ pos = NoPos
        THEN <<idx1, [NoNavOut EXCEPT !.ret = "null", !.before = idx]>>
        ELSE
          LET distance == calculateDistance(pos, WptPos(wps[k]))
              idx2 == ReachingCheck(wps, idx1, distance)
          IN  <<idx2,
                [ret |-> "data", waypointId |-> wps[k].id, waypointAt |-> idx1,
                 dist |-> distance, dtw |-> RoundDiv(distance, 100),
                 legIndex |-> idx1, activeIndex |-> idx2,
                 totalWaypoints |-> Len(wps), before |-> idx]>>

-----------------------------------------------------------------------------
(* Navigation: operations *)

\* Navigation.addWaypoint at clock reading t: id is Date.now(); the display
\* name plays no part in routing and is left out
AddWaypoint(lat, lon, t) ==
  /\ Len(waypoints) < MaxWaypoints
  /\ waypoints' = Append(waypoints, [id |-> t, lat |-> lat, lon |-> lon])
  /\ navOut' = NoNavOut
  /\ UNCHANGED <<activeWaypointIndex, currentPosition>>
  /\ UNCHANGED <<gpsVars, polarVars, calcVars, weatherVars>>

\* Array.findIndex: the first place holding id, 0 if none
FindIndex(wps, id) ==
  IF \E i \in 1..Len(wps) : wps[i].id = id
  THEN CHOOSE i \in 1..Len(wps) :
         wps[i].id = id /\ \A j \in 1..(i - 1) : wps[j].id # id
  ELSE 0

Splice(wps, i) == [j \in 1..(Len(wps) - 1) |-> IF j < i THEN wps[j] ELSE wps[j + 1]]

\* Navigation.removeWaypoint: <<waypoints, activeWaypointIndex>> after the call
removeWaypointNoClamp(wps, idx, id) ==
  LET i == FindIndex(wps, id)
  IN  IF i = 0 THEN <<wps, idx>> ELSE <<Splice(wps, i), idx>>
removeWaypoint(wps, idx, id) ==
  LET i == FindIndex(wps, id)
  IN  IF i = 0 THEN <<wps, idx>>
      ELSE LET rest == Splice(wps, i)
           IN  <<rest, IF idx >= Len(rest) THEN Max(0, Len(rest) - 1) ELSE idx>>

RemoveWaypoint(id) ==
  LET r == removeWaypoint(waypoints, activeWaypointIndex, id)
  IN  /\ waypoints' = r[1]
      /\ activeWaypointIndex' = r[2]
      /\ navOut' = NoNavOut
      /\ UNCHANGED currentPosition
      /\ UNCHANGED <<gpsVars, polarVars, calcVars, weatherVars>>

\* Navigation.setActiveWaypoint
SetActiveWaypoint(index) ==
  /\ activeWaypointIndex' =
       IF index >= 0 /\ index < Len(waypoints) THEN index ELSE activeWaypointIndex
  /\ navOut' = NoNavOut
  /\ UNCHANGED <<waypoints, currentPosition>>
  /\ UNCHANGED <<gpsVars, polarVars, calcVars, weatherVars>>

\* Navigation.clearRoute
ClearRoute ==
  /\ waypoints' = <<>>
  /\ activeWaypointIndex' = 0
  /\ navOut' = NoNavOut
  /\ UNCHANGED currentPosition
  /\ UNCHANGED <<gpsVars, polarVars, calcVars, weatherVars>>

\* The listener of SailNavApp.setupGPS for a fix at pos: stores the position
\* and asks Navigation for the navigation data
ListenerUpdate(pos) ==
  LET r == calculateNavigationData(waypoints, activeWaypointIndex, pos)
  IN  /\ currentPosition' = pos
      /\ activeWaypointIndex' = r[1]
      /\ navOut' = r[2]
      /\ UNCHANGED waypoints

\* A fix at pos reaches the listener
PositionUpdate(pos) ==
  /\ ListenerUpdate(pos)
  /\ UNCHANGED <<gpsVars, polarVars, calcVars, weatherVars>>

\* SailNavApp.skipWaypoint
SkipWaypoint ==
  /\ activeWaypointIndex < Len(waypoints) - 1
  /\ LET r == calculateNavigationData(waypoints, activeWaypointIndex + 1,
                                      currentPosition)
     IN  /\ activeWaypointIndex' = r[1]
         /\ navOut' = r[2]
  /\ UNCHANGED <<waypoints, currentPosition>>
  /\ UNCHANGED <<gpsVars, polarVars, calcVars, weatherVars>>

NavInit ==
  /\ waypoints = <<>>
  /\ activeWaypointIndex = 0
  /\ currentPosition = NoPos
  /\ navOut = NoNavOut

NavNext ==
  \/ \E p \in WptPoints, t \in Times : AddWaypoint(p[1], p[2], t)
  \/ \E id \in Times : RemoveWaypoint(id)
  \/ \E i \in -1..MaxWaypoints : SetActiveWaypoint(i)
  \/ ClearRoute
  \/ \E p \in BoatPoints : PositionUpdate(p)
  \/ SkipWaypoint


-----------------------------------------------------------------------------
(* Trigonometry in fixed point *)

\* SinH[j + 1] = round(10000 * sin(j / 2 degrees)), j = 0..180
SinH ==
  << 0, 87, 175, 262, 349, 436, 523, 610, 698, 785, 872, 958,
     1045, 1132, 1219, 1305, 1392, 1478, 1564, 1650, 1736, 1822, 1908, 1994,
     2079, 2164, 2250, 2334, 2419, 2504, 2588, 2672, 2756, 2840, 2924, 3007,
     3090, 3173, 3256, 3338, 3420, 3502, 3584, 3665, 3746, 3827, 3907, 3987,
     4067, 4147, 4226, 4305, 4384, 4462, 4540, 4617, 4695, 4772, 4848, 4924,
     5000, 5075, 5150, 5225, 5299, 5373, 5446, 5519, 5592, 5664, 5736, 5807,
     5878, 5948, 6018, 6088, 6157, 6225, 6293, 6361, 6428, 6494, 6561, 6626,
     6691, 6756, 6820, 6884, 6947, 7009, 7071, 7133, 7193, 7254, 7314, 7373,
     7431, 7490, 7547, 7604, 7660, 7716, 7771, 7826, 7880, 7934, 7986, 8039,
     8090, 8141, 8192, 8241, 8290, 8339, 8387, 8434, 8480, 8526, 8572, 8616,
     8660, 8704, 8746, 8788, 8829, 8870, 8910, 8949, 8988, 9026, 9063, 9100,
     9135, 9171, 9205, 9239, 9272, 9304, 9336, 9367, 9397, 9426, 9455, 9483,
     9511, 9537, 9563, 9588, 9613, 9636, 9659, 9681, 9703, 9724, 9744, 9763,
     9781, 9799, 9816, 9833, 9848, 9863, 9877, 9890, 9903, 9914, 9925, 9936,
     9945, 9954, 9962, 9969, 9976, 9981, 9986, 9990, 9994, 9997, 9998, 10000,
     10000 >>

\* Math.sin and Math.cos of an angle h in half-degrees (0..719), times 10000
Sin(h) ==
  IF h <= 180 THEN SinH[h + 1]
  ELSE IF h <= 360 THEN SinH[360 - h + 1]
  ELSE IF h <= 540 THEN -SinH[h - 360 + 1]
  ELSE -SinH[720 - h + 1]
Cos(h) == Sin((h + 180) % 720)

\* The half-degree bin (0..179) of the direction of (x, y), x > 0, y >= 0
QuadrantBin(y, x) ==
  Cardinality({j \in 1..179 : y * SinH[180 - j + 1] >= x * SinH[j + 1]})

\* (Math.atan2(y, x) * 180 / Math.PI + 360) % 360 in half-degrees, floor:
\* 0..719.  Math.atan2(0, 0) is 0.
Atan2Norm(yy, xx) ==
  LET big == Max(Abs(yy), Abs(xx)) > 200000
      y == IF big THEN yy \div 4 ELSE yy
      x == IF big THEN xx \div 4 ELSE xx
  IN  IF x > 0 /\ y >= 0 THEN QuadrantBin(y, x)
      ELSE IF x <= 0 /\ y > 0 THEN 180 + QuadrantBin(-x, y)
      ELSE IF x < 0 /\ y <= 0 THEN 360 + QuadrantBin(-y, -x)
      ELSE IF x >= 0 /\ y < 0 THEN 540 + QuadrantBin(x, -y)
      ELSE 0

\* Math.round of an angle held in half-degrees, in whole degrees
RoundAngle(h) == (h + 1) \div 2

-----------------------------------------------------------------------------
(* GPSTracker *)

maxTrackPoints == 1000
maxBufferSize == 5
lowSpeedThreshold == 1000   \* 1.0 kn in milli-knots
MovingThreshold == 500      \* 0.5 kn in milli-knots
MinSpeed == 100             \* 0.1 kn in milli-knots
FixIntervalMs == 10 * 1000  \* the platform reports a fix every 10 s

\* null, for position and previousPosition
NoFix == [lat |-> 0, lon |-> 0, heading |-> -1, speed |-> -1, timestamp |-> -1]
NoHeading == -1   \* coords.heading null
NoSpeed == -1     \* coords.speed null

\* m/s to knots (x 1.94384): mm/s in, milli-knots out
ToKnots(mmps) == (mmps * 194384) \div 100000

\* GPSTracker.calculateDistance, in mm (1 milli-nm is 1852 mm)
GPS_calculateDistance(p, q) == calculateDistance(p, q) * 1852

\* GPSTracker.calculateBearing in half-degrees
GPS_calculateBearing(p, q) == Atan2Norm(q[2] - p[2], q[1] - p[1])

\* gps.js:77-107: the raw sog (milli-knots) and raw cog (half-degrees) of a fix
RawSogCogIgnoresDevice(prev, pos) ==
  LET timeDiff == pos.timestamp - prev.timestamp
      moved == prev # NoFix /\ timeDiff > 0
      noHeading == pos.heading = NoHeading \/ pos.heading = 0
      distance == GPS_calculateDistance(<<prev.lat, prev.lon>>, <<pos.lat, pos.lon>>)
      sog0 == IF moved THEN ToKnots((distance * 1000) \div timeDiff) ELSE 0
      cog == IF moved /\ noHeading
             THEN GPS_calculateBearing(<<prev.lat, prev.lon>>, <<pos.lat, pos.lon>>)
             ELSE IF noHeading THEN 0 ELSE pos.heading
      sog == IF moved THEN sog0
             ELSE IF pos.speed # NoSpeed THEN ToKnots(pos.speed) ELSE 0
  IN  <<sog, cog>>
RawSogCog(prev, pos) ==
  LET timeDiff == pos.timestamp - prev.timestamp   \* ms
      moved == prev # NoFix /\ timeDiff > 0
      noHeading == pos.heading = NoHeading \/ pos.heading = 0
      distance == GPS_calculateDistance(<<prev.lat, prev.lon>>, <<pos.lat, pos.lon>>)
      sog0 == IF moved THEN ToKnots((distance * 1000) \div timeDiff) ELSE 0
      cog == IF moved /\ noHeading
             THEN GPS_calculateBearing(<<prev.lat, prev.lon>>, <<pos.lat, pos.lon>>)
             ELSE IF noHeading THEN 0 ELSE pos.heading
      sog == IF pos.speed # NoSpeed THEN ToKnots(pos.speed) ELSE sog0
  IN  <<sog, cog>>

\* Array.slice(-n)
SliceWhole(buf, n) == buf
SliceLast(buf, n) == SubSeq(buf, Len(buf) - Min(n, Len(buf)) + 1, Len(buf))

RECURSIVE WeightedSum(_, _)
\* sum of value * (index + 1) over the samples
WeightedSum(samples, n) ==
  IF n = 0 THEN 0 ELSE WeightedSum(samples, n - 1) + samples[n] * n

WeightSum(n) == (n * (n + 1)) \div 2

\* GPSTracker.circularMean, in half-degrees
circularMean(angles) ==
  LET sinSum == WeightedSum([i \in 1..Len(angles) |-> Sin(angles[i])], Len(angles))
      cosSum == WeightedSum([i \in 1..Len(angles) |-> Cos(angles[i])], Len(angles))
  IN  Atan2Norm(sinSum, cosSum)

HeavyWindow == 10
LightWindow == 3

\* gps.js:160-169: the cog kept at very low speed
LastValidCog(sogBuf, cogBuf, rawCog) ==
  LET hits == {i \in 1..(Len(cogBuf) - 1) : sogBuf[i] > MovingThreshold}
  IN  IF hits = {} THEN rawCog
      ELSE cogBuf[CHOOSE i \in hits : \A j \in hits : j <= i]

\* Array.push, then one shift when longer than limit
PushTrim(buf, v, limit) ==
  LET b == Append(buf, v) IN IF Len(b) > limit THEN Tail(b) ELSE b

\* GPSTracker.applySmoothong: the buffers after the call, the smoothed sog as
\* the quotient sogSum / weightSum (milli-knots) and the smoothed cog
applySmoothong(sogBuf, cogBuf, rawSog, rawCog) ==
  LET pushed == Len(sogBuf) + 1
      effectiveBufferSize ==
        IF rawSog < lowSpeedThreshold THEN Min(pushed, HeavyWindow)
        ELSE Min(pushed, LightWindow)
      sb == PushTrim(sogBuf, rawSog, maxBufferSize * 2)
      cb == PushTrim(cogBuf, rawCog, maxBufferSize * 2)
      sogSamples == SliceLast(sb, effectiveBufferSize)
      sogSum == WeightedSum(sogSamples, Len(sogSamples))
      weightSum == WeightSum(Len(sogSamples))
      smoothedCog ==
        IF sogSum > MovingThreshold * weightSum
        THEN circularMean(SliceLast(cb, effectiveBufferSize))
        ELSE LastValidCog(sb, cb, rawCog)
  IN  [sogBuffer |-> sb, cogBuffer |-> cb, sogSum |-> sogSum,
       weightSum |-> weightSum,
       belowMin |-> sogSum < MinSpeed * weightSum,
       cog |-> smoothedCog]

NoGpsOut ==
  [kind |-> "none", sog |-> 0, cog |-> 0, sogSum |-> 0, weightSum |-> 1,
   smoothedCog |-> 0, rawSog |-> 0, rawCog |-> 0]

\* GPSTracker.calculateNavigationData for a position that is set: the smoothing
\* result and the record handed to the listeners (sog in tenths of a knot,
\* cog in whole degrees)
GPS_calculateNavigationData(prev, pos, sogBuf, cogBuf) ==
  LET raw == RawSogCog(prev, pos)
      sm == applySmoothong(sogBuf, cogBuf, raw[1], raw[2])
  IN  [smoothed |-> sm,
       data |-> [kind |-> "data",
                 sog |-> IF sm.belowMin THEN 0
                         ELSE RoundDiv(sm.sogSum, sm.weightSum * 100),
                 cog |-> RoundAngle(sm.cog),
                 sogSum |-> sm.sogSum, weightSum |-> sm.weightSum,
                 smoothedCog |-> sm.cog, rawSog |-> raw[1], rawCog |-> raw[2]]]

\* gps.js:53-61: the track history after a fix
TrackPushDropNewest(track, point) ==
  IF Len(track) >= maxTrackPoints THEN track ELSE Append(track, point)
TrackPush(track, point) == PushTrim(track, point, maxTrackPoints)

\* GPSTracker.handlePosition: what it does to the tracker
HandlePosition(fix) ==
  LET r == GPS_calculateNavigationData(position, fix, sogBuffer, cogBuffer)
  IN  /\ previousPosition' = position
      /\ position' = fix
      /\ trackHistory' = TrackPush(trackHistory,
            [lat |-> fix.lat, lon |-> fix.lon, timestamp |-> fix.timestamp])
      /\ sogBuffer' = r.smoothed.sogBuffer
      /\ cogBuffer' = r.smoothed.cogBuffer
      /\ gpsOut' = r.data
      /\ processed' = Append(processed,
            [lat |-> fix.lat, lon |-> fix.lon, timestamp |-> fix.timestamp,
             rawSog |-> r.data.rawSog, rawCog |-> r.data.rawCog])

\* The listener SailNavApp.setupGPS registers, run by notifyListeners for a fix
NotifyPosition(fix) ==
  IF listeners > 0 THEN ListenerUpdate(<<fix.lat, fix.lon>>)
  ELSE UNCHANGED navVars

\* GPSTracker.start: one more platform watch; watchId names the newest
StartWatch(ws, count) == [watches |-> ws \cup {count + 1}, watchId |-> count + 1,
                          watchCount |-> count + 1]

Start ==
  /\ watchCount < MaxWatches
  /\ LET w == StartWatch(watches, watchCount)
     IN  /\ watches' = w.watches
         /\ watchId' = w.watchId
         /\ watchCount' = w.watchCount
  /\ UNCHANGED <<listeners, pending, fixCount>>
  /\ UNCHANGED trackerVars
  /\ UNCHANGED <<navVars, polarVars, calcVars, weatherVars>>

\* GPSTracker.stop: clears the watch watchId names, if any (0 is null)
Stop ==
  /\ watches' = IF watchId # 0 THEN watches \ {watchId} ELSE watches
  /\ pending' = IF watchId # 0
                THEN SelectSeq(pending, LAMBDA c : c.watch # watchId)
                ELSE pending
  /\ watchId' = 0
  /\ UNCHANGED <<listeners, watchCount, fixCount>>
  /\ UNCHANGED trackerVars
  /\ UNCHANGED <<navVars, polarVars, calcVars, weatherVars>>

\* SailNavApp.startWithGPS, the success callback of getCurrentPosition:
\* setupGPS (onUpdate, then gps.start()) and then gps.start() again
StartWithGPS ==
  /\ watchCount + 2 <= MaxWatches
  /\ listeners < MaxListeners
  /\ listeners' = listeners + 1
  /\ LET w1 == StartWatch(watches, watchCount)
         w2 == StartWatch(w1.watches, w1.watchCount)
     IN  /\ watches' = w2.watches
         /\ watchId' = w2.watchId
         /\ watchCount' = w2.watchCount
  /\ UNCHANGED <<pending, fixCount>>
  /\ UNCHANGED trackerVars
  /\ UNCHANGED <<navVars, polarVars, calcVars, weatherVars>>

\* Shapes of the fixes the platform reports: <<lat, lon, heading, speed>>
FixShapes ==
  { <<0, 0, NoHeading, NoSpeed>>,
    <<1, 0, NoHeading, NoSpeed>>,
    <<0, 0, 0, 3000>>,
    <<1, 0, 719, 3000>>,
    <<0, 0, 718, 3000>>,
    <<1, 0, 180, 200>> }

MakeFix(shape, n) ==
  [lat |-> shape[1], lon |-> shape[2], heading |-> shape[3], speed |-> shape[4],
   timestamp |-> n * FixIntervalMs]

RECURSIVE CallbacksFor(_, _)
\* One success callback per registered watch, in the order of registration
CallbacksFor(ws, fix) ==
  IF ws = {} THEN <<>>
  ELSE LET w == CHOOSE x \in ws : \A y \in ws : x <= y
       IN  <<[watch |-> w, fix |-> fix]>> \o CallbacksFor(ws \ {w}, fix)

\* The platform has a new fix and queues the callback of every watch
PlatformFix(shape) ==
  /\ fixCount < MaxPlatformFixes
  /\ watches # {}
  /\ pending = <<>>
  /\ fixCount' = fixCount + 1
  /\ pending' = CallbacksFor(watches, MakeFix(shape, fixCount + 1))
  /\ UNCHANGED <<watchId, listeners, watches, watchCount>>
  /\ UNCHANGED trackerVars
  /\ UNCHANGED <<navVars, polarVars, calcVars, weatherVars>>

\* The platform runs the next queued callback: handlePosition, notifyListeners
Deliver ==
  /\ pending # <<>>
  /\ HandlePosition(Head(pending).fix)
  /\ NotifyPosition(Head(pending).fix)
  /\ pending' = Tail(pending)
  /\ UNCHANGED <<watchId, listeners, watches, watchCount, fixCount>>
  /\ UNCHANGED <<polarVars, calcVars, weatherVars>>

\* GPSTracker.handleError, run by the platform for a watch: the listeners get
\* an error record and nothing else changes
HandleErrorResets ==
  /\ watches # {}
  /\ gpsOut' = [NoGpsOut EXCEPT !.kind = "error"]
  /\ position' = NoFix
  /\ previousPosition' = NoFix
  /\ sogBuffer' = <<>>
  /\ cogBuffer' = <<>>
  /\ UNCHANGED <<trackHistory, processed>>
  /\ UNCHANGED watchVars
  /\ UNCHANGED <<navVars, polarVars, calcVars, weatherVars>>
HandleError ==
  /\ watches # {}
  /\ gpsOut' = [NoGpsOut EXCEPT !.kind = "error"]
  /\ UNCHANGED <<position, previousPosition, trackHistory, sogBuffer, cogBuffer,
                 processed>>
  /\ UNCHANGED watchVars
  /\ UNCHANGED <<navVars, polarVars, calcVars, weatherVars>>

GpsInit ==
  /\ position = NoFix
  /\ previousPosition = NoFix
  /\ watchId = 0
  /\ listeners = 0
  /\ trackHistory = <<>>
  /\ sogBuffer = <<>>
  /\ cogBuffer = <<>>
  /\ watches = {}
  /\ watchCount = 0
  /\ pending = <<>>
  /\ fixCount = 0
  /\ gpsOut = NoGpsOut
  /\ processed = <<>>

GpsNext ==
  \/ Start
  \/ Stop
  \/ StartWithGPS
  \/ \E shape \in FixShapes : PlatformFix(shape)
  \/ Deliver
  \/ HandleError

\* Fixes handed to handlePosition one after the other, as by a single watch
SmoothShapes ==
  { <<0, 0, 180, 3000>>, <<0, 0, 718, 200>> }

SmoothStep ==
  /\ Len(processed) < MaxSmoothFixes
  /\ \E shape \in SmoothShapes :
       HandlePosition(MakeFix(shape, Len(processed) + 1))
  /\ UNCHANGED watchVars
  /\ UNCHANGED <<navVars, polarVars, calcVars, weatherVars>>

\* A long run of fixes along a meridian, for the track history
TrackStep ==
  /\ Len(processed) < MaxTrackFixes
  /\ HandlePosition(MakeFix(<<Len(processed) % 2, 0, NoHeading, NoSpeed>>,
                            Len(processed) + 1))
  /\ UNCHANGED watchVars
  /\ UNCHANGED <<navVars, polarVars, calcVars, weatherVars>>

-----------------------------------------------------------------------------
(* BoatPolar *)

\* A polar table or any other JavaScript value held where one is expected:
\* kind "null", "number" or "object"; has lists the properties an object
\* carries; name is <<length, text>> ("40ft Catamaran" is <<40, "ft Catamaran">>,
\* an imported "T" is <<0, "T">>); angles in degrees; keys are the wind speeds
\* of speeds in ascending order and rows[i] is speeds[keys[i]], in centi-knots
NullValue ==
  [kind |-> "null", has |-> {}, name |-> <<0, "">>, hullSpeed |-> 0,
   angles |-> <<>>, keys |-> <<>>, rows |-> <<>>]
NumberValue == [NullValue EXCEPT !.kind = "number"]

\* x * f for a factor f held in thousandths
Mul(x, f) == (x * f) \div 1000

\* Math.min
MinOf(a, b) == IF a <= b THEN a ELSE b

\* BoatPolar.generatePolarFromLength
generatePolarFromLength(lengthFeet, type) ==
  LET cat == type = "catamaran"
      sqrtLength == Isqrt(lengthFeet * 1000000)            \* thousandths
      hullSpeed == Mul(IF cat THEN 140 ELSE 134, sqrtLength)
      upwindPenalty == IF cat THEN 850 ELSE 1000
      reachingBonus == IF cat THEN 1150 ELSE 1000
      lightWindBonus == IF cat THEN 1200 ELSE 1000
      speedPotential == IF cat THEN 1300 ELSE 1000
      sizeFactor == Isqrt((lengthFeet * 1000000) \div 40)  \* thousandths
      S(x) == Mul(x, sizeFactor)
      L(x) == Mul(x, lightWindBonus)
      R(x) == Mul(x, reachingBonus)
      U(x) == Mul(x, upwindPenalty)
      cap == Mul(hullSpeed, speedPotential)
  IN  [kind |-> "object",
       has |-> {"name", "hullSpeed", "angles", "speeds"},
       name |-> <<lengthFeet, IF cat THEN "ft Catamaran" ELSE "ft Monohull">>,
       hullSpeed |-> hullSpeed,
       angles |-> <<0, 30, 50, 60, 75, 90, 110, 120, 135, 150, 165, 180>>,
       keys |-> <<5, 10, 15, 20, 25, 30>>,
       rows |-> <<
         <<0, 0, U(L(S(300))), L(S(380)), L(S(420)), R(L(S(450))), R(L(S(430))),
           L(S(380)), S(320), S(280), S(230), S(200)>>,
         <<0, 0, U(S(400)), S(550), S(620), R(S(700)), R(S(750)), R(S(700)),
           S(600), S(500), S(420), S(380)>>,
         <<0, 0, U(S(500)), S(650), S(720), MinOf(R(S(850)), cap),
           MinOf(R(S(900)), cap), MinOf(R(S(850)), cap),
           S(750), S(650), S(600), S(550)>>,
         <<0, 0, U(S(550)), S(700), MinOf(S(800), hullSpeed),
           MinOf(R(S(950)), cap), MinOf(R(S(1000)), cap), MinOf(R(S(950)), cap),
           S(850), S(750), S(700), S(650)>>,
         <<0, 0, U(S(520)), S(680), MinOf(S(780), hullSpeed),
           MinOf(R(S(900)), cap), MinOf(R(S(950)), cap), MinOf(R(S(900)), cap),
           S(820), S(750), S(720), S(700)>>,
         <<0, 0, U(S(480)), S(650), S(750), MinOf(R(S(850)), cap),
           MinOf(R(S(900)), cap), MinOf(R(S(850)), cap),
           S(800), S(750), S(750), S(750)>> >>]

\* BoatPolar.getCurrentPolar: customPolar || polarData (an object is truthy,
\* null and 0 are not)
getCurrentPolar(custom, data) == IF custom.kind # "null" THEN custom ELSE data

\* A table every row of which is as long as angles
Rectangular(polar) ==
  /\ polar.kind = "object"
  /\ {"angles", "speeds"} \subseteq polar.has
  /\ \A i \in 1..Len(polar.rows) : Len(polar.rows[i]) = Len(polar.angles)

\* Quotients <<numerator, denominator>>, denominator > 0
RECURSIVE Gcd(_, _)
Gcd(a, b) == IF b = 0 THEN a ELSE Gcd(b, a % b)
Reduce(q) ==
  LET g == Gcd(Abs(q[1]), q[2]) IN <<q[1] \div g, q[2] \div g>>
QEq(p, q) == p[1] * q[2] = q[1] * p[2]

\* The first place i with lo[i] <= x <= lo[i+1], 0 if none: the for loops of
\* getBoatSpeed and interpolateAngle
Bracket(xs, x) ==
  LET hits == {i \in 1..(Len(xs) - 1) : x >= xs[i] /\ x <= xs[i + 1]}
  IN  IF hits = {} THEN 0 ELSE CHOOSE i \in hits : \A j \in hits : i <= j

\* BoatPolar.interpolateAngle, a quotient in centi-knots
interpolateAngleLower(speeds, angles, targetAngle) ==
  LET i == Bracket(angles, targetAngle)
  IN  IF i # 0 THEN <<speeds[i], 1>>
      ELSE IF targetAngle <= angles[1] THEN <<speeds[1], 1>>
      ELSE <<speeds[Len(speeds)], 1>>
interpolateAngle(speeds, angles, targetAngle) ==
  LET i == Bracket(angles, targetAngle)
  IN  IF i # 0
      THEN Reduce(<<speeds[i] * (angles[i + 1] - angles[i])
                      + (speeds[i + 1] - speeds[i]) * (targetAngle - angles[i]),
                    angles[i + 1] - angles[i]>>)
      ELSE IF targetAngle <= angles[1] THEN <<speeds[1], 1>>
      ELSE <<speeds[Len(speeds)], 1>>

\* polar.js:116-117
NormalizedAngle(trueWindAngle) ==
  MinOf(Abs(trueWindAngle), 360 - Abs(trueWindAngle))

\* polar.js:119-130: the places in keys of lowerWindSpeed and upperWindSpeed
WindBracket(keys, trueWindSpeed) ==
  LET i == Bracket(keys, trueWindSpeed)
  IN  IF i # 0 THEN <<i, i + 1>> ELSE <<1, Len(keys)>>

\* BoatPolar.getBoatSpeed on a rectangular table with strictly increasing
\* angles and at least one wind speed: a quotient in centi-knots
getBoatSpeed(polar, trueWindSpeed, trueWindAngle) ==
  LET normalizedAngle == NormalizedAngle(trueWindAngle)
      b == WindBracket(polar.keys, trueWindSpeed)
      lowerWindSpeed == polar.keys[b[1]]
      upperWindSpeed == polar.keys[b[2]]
      lowerSpeeds == interpolateAngle(polar.rows[b[1]], polar.angles, normalizedAngle)
      upperSpeeds == interpolateAngle(polar.rows[b[2]], polar.angles, normalizedAngle)
      gap == upperWindSpeed - lowerWindSpeed
  IN  IF lowerWindSpeed = upperWindSpeed THEN lowerSpeeds
      ELSE Reduce(<<lowerSpeeds[1] * upperSpeeds[2] * gap
                      + (upperSpeeds[1] * lowerSpeeds[2] - lowerSpeeds[1] * upperSpeeds[2])
                          * (trueWindSpeed - lowerWindSpeed),
                    lowerSpeeds[2] * upperSpeeds[2] * gap>>)

\* The strings given to importPolar
Docs == {"not json", "null", "42", "{}", "noName", "noAngles", "noSpeeds",
         "emptyName", "table", "ragged"}

SmallTable ==
  [kind |-> "object", has |-> {"name", "angles", "speeds"}, name |-> <<0, "T">>,
   hullSpeed |-> 0, angles |-> <<0, 90, 180>>, keys |-> <<10, 20>>,
   rows |-> << <<0, 500, 300>>, <<0, 800, 600>> >>]

Without(polar, field) ==
  IF field = "name" THEN [polar EXCEPT !.has = @ \ {"name"}, !.name = <<0, "">>]
  ELSE IF field = "angles" THEN [polar EXCEPT !.has = @ \ {"angles"}, !.angles = <<>>]
  ELSE [polar EXCEPT !.has = @ \ {"speeds"}, !.keys = <<>>, !.rows = <<>>]

\* JSON.parse: ok is FALSE for a SyntaxError
JSONParse(doc) ==
  CASE doc = "not json" -> [ok |-> FALSE, value |-> NullValue]
    [] doc = "null" -> [ok |-> TRUE, value |-> NullValue]
    [] doc = "42" -> [ok |-> TRUE, value |-> NumberValue]
    [] doc = "{}" -> [ok |-> TRUE, value |-> [NullValue EXCEPT !.kind = "object"]]
    [] doc = "noName" -> [ok |-> TRUE, value |-> Without(SmallTable, "name")]
    [] doc = "noAngles" -> [ok |-> TRUE, value |-> Without(SmallTable, "angles")]
    [] doc = "noSpeeds" -> [ok |-> TRUE, value |-> Without(SmallTable, "speeds")]
    [] doc = "emptyName" -> [ok |-> TRUE, value |-> [SmallTable EXCEPT !.name = <<0, "">>]]
    [] doc = "table" -> [ok |-> TRUE, value |-> SmallTable]
    [] doc = "ragged" ->
         [ok |-> TRUE,
          value |-> [SmallTable EXCEPT !.name = <<0, "R">>,
                                       !.rows = << <<0, 500>>, <<0, 800, 600>> >>]]

\* polar.angles && polar.speeds && polar.name for a parsed value; reading a
\* property of null throws, which the catch turns into a rejection
ValidStructure(v) ==
  /\ v.kind = "object"
  /\ {"angles", "speeds", "name"} \subseteq v.has
  /\ v.name # <<0, "">>

\* BoatPolar.importPolar: customPolar after the call and the value returned
importPolarUnchecked(custom, jsonString) ==
  LET p == JSONParse(jsonString)
  IN  IF p.ok /\ p.value.kind = "object"
      THEN [customPolar |-> p.value, ret |-> ValidStructure(p.value)]
      ELSE [customPolar |-> custom, ret |-> FALSE]
importPolar(custom, jsonString) ==
  LET p == JSONParse(jsonString)
  IN  IF p.ok /\ ValidStructure(p.value)
      THEN [customPolar |-> p.value, ret |-> TRUE]
      ELSE [customPolar |-> custom, ret |-> FALSE]

NoPolarOut ==
  [op |-> "none", doc |-> "", ret |-> FALSE, tws |-> 0, twa |-> 0,
   value |-> <<0, 1>>, before |-> NullValue]

\* BoatPolar.setBoatLength
SetBoatLength(lengthFeet, type) ==
  /\ boatLength' = lengthFeet
  /\ boatType' = type
  /\ polarData' = generatePolarFromLength(lengthFeet, type)
  /\ polarOut' = [NoPolarOut EXCEPT !.op = "length"]
  /\ UNCHANGED customPolar
  /\ UNCHANGED <<navVars, gpsVars, calcVars, weatherVars>>

\* BoatPolar.setCustomPolar
SetCustomPolar(value) ==
  /\ customPolar' = value
  /\ polarOut' = NoPolarOut
  /\ UNCHANGED <<boatLength, boatType, polarData>>
  /\ UNCHANGED <<navVars, gpsVars, calcVars, weatherVars>>

\* BoatPolar.importPolar
ImportPolar(jsonString) ==
  LET r == importPolar(customPolar, jsonString)
  IN  /\ customPolar' = r.customPolar
      /\ polarOut' = [NoPolarOut EXCEPT !.op = "import", !.doc = jsonString,
                        !.ret = r.ret,
                        !.before = getCurrentPolar(customPolar, polarData)]
      /\ UNCHANGED <<boatLength, boatType, polarData>>
      /\ UNCHANGED <<navVars, gpsVars, calcVars, weatherVars>>

\* BoatPolar.getBoatSpeed on the active table
GetBoatSpeed(tws, twa) ==
  LET polar == getCurrentPolar(customPolar, polarData)
  IN  /\ Rectangular(polar)
      /\ Len(polar.keys) > 0
      /\ polarOut' = [NoPolarOut EXCEPT !.op = "speed", !.tws = tws, !.twa = twa,
                        !.value = getBoatSpeed(polar, tws, twa)]
      /\ UNCHANGED <<boatLength, boatType, polarData, customPolar>>
      /\ UNCHANGED <<navVars, gpsVars, calcVars, weatherVars>>

\* new BoatPolar()
PolarInit ==
  /\ boatLength = 40
  /\ boatType = "catamaran"
  /\ polarData = generatePolarFromLength(40, "catamaran")
  /\ customPolar = NullValue
  /\ polarOut = NoPolarOut

Lengths == {30, 40}
Types == {"catamaran", "monohull"}
WindSpeeds == {3, 5, 10, 12, 30, 35}
WindAngles == {0, 40, 90, -120, 180, 270}

PolarNext ==
  \/ \E l \in Lengths, t \in Types : SetBoatLength(l, t)
  \/ \E d \in Docs : SetCustomPolar(JSONParse(d).value)
  \/ \E d \in Docs : ImportPolar(d)
  \/ \E w \in WindSpeeds, a \in WindAngles : GetBoatSpeed(w, a)

-----------------------------------------------------------------------------
(* Calculations of Navigation, WindCalculator and the steering display.     *)
(* Speeds are in tenths of a knot, angles in whole degrees unless a name    *)
(* ends in H (half-degrees), distances in milli-nm.                         *)

NoCalcOut == [op |-> "none"]

NoSog == -1   \* currentPosition.sog undefined
NoCog == -1   \* currentPosition.cog undefined

\* Math.cos of a difference of angles in doubles is never exactly 0: at a
\* right angle it is a rounding residue of either sign
CosResidues == {-1, 1}

\* Navigation.calculateVMG, in tenths of a knot times 10000
calculateVMG(sog, cog, bearingH, residue) ==
  IF sog = NoSog \/ sog = 0 THEN 0
  ELSE LET cogH == 2 * (IF cog = NoCog THEN 0 ELSE cog)
           c == Cos((cogH - bearingH) % 720)
       IN  sog * (IF c = 0 THEN residue ELSE c)

\* Navigation.calculateETA: the sentinel '--:--', or the quotient
\* distance / vmg that is added to the clock
calculateETALoose(distance, vmg) ==
  IF vmg < 0 THEN [sentinel |-> TRUE, num |-> 0, den |-> 1]
  ELSE [sentinel |-> FALSE, num |-> distance, den |-> vmg]
calculateETA(distance, vmg) ==
  IF vmg <= 0 THEN [sentinel |-> TRUE, num |-> 0, den |-> 1]
  ELSE [sentinel |-> FALSE, num |-> distance, den |-> vmg]

\* navigation.js:67-69: vmg and eta of calculateNavigationData
CalculateETA(distance, sog, cog, bearingH, residue) ==
  /\ calcOut' =
       [op |-> "eta", distance |-> distance, sog |-> sog, cog |-> cog,
        bearingH |-> bearingH,
        vmg |-> calculateVMG(sog, cog, bearingH, residue),
        eta |-> calculateETA(distance, calculateVMG(sog, cog, bearingH, residue))]
  /\ UNCHANGED <<navVars, gpsVars, polarVars, weatherVars>>

NormalizeSignedNot(x) == x
RECURSIVE NormalizeSigned(_)
\* while (x > 180) x -= 360; while (x < -180) x += 360
NormalizeSigned(x) ==
  IF x > 180 THEN NormalizeSigned(x - 360)
  ELSE IF x < -180 THEN NormalizeSigned(x + 360)
  ELSE x

\* The % of JavaScript: the remainder has the sign of the dividend
JsRem(a, n) == IF a >= 0 THEN a % n ELSE -((-a) % n)

\* WindCalculator.getWindShift with trueWindDirection = twd
GetWindShift(twd, previousDirection) ==
  LET normalizedShift == NormalizeSigned(twd - previousDirection)
  IN  /\ calcOut' =
           [op |-> "windShift", shift |-> twd - previousDirection,
            normalized |-> normalizedShift,
            magnitude |-> Abs(normalizedShift),
            direction |-> IF normalizedShift > 0 THEN "veer" ELSE "back"]
      /\ UNCHANGED <<navVars, gpsVars, polarVars, weatherVars>>

\* WindCalculator.getTrueWindAngle with trueWindDirection = twd
GetTrueWindAngle(twd, heading) ==
  LET twa == NormalizeSigned(twd - heading)
  IN  /\ calcOut' =
           [op |-> "trueWindAngle", shift |-> twd - heading,
            normalized |-> twa, twa |-> Abs(twa)]
      /\ UNCHANGED <<navVars, gpsVars, polarVars, weatherVars>>

\* part_004:494: the correction in half-degrees for an xte in hundredths of
\* a nautical mile (xte * 50 degrees)
xteCorrection(xte) == Min(Max(xte, -60), 60)

\* part_004:495: Math.round((brg + xteCorrection + 360) % 360)
courseToSteer(brg, xte) ==
  RoundAngle(JsRem(2 * brg + xteCorrection(xte) + 720, 720))

\* SailNavApp.updateSteeringDisplay: the course to steer, the steering
\* angle and the direction shown
UpdateSteeringDisplay(brg, xte, cog) ==
  LET cts == courseToSteer(brg, xte)
      angleDiff == NormalizeSigned(cts - (IF cog = NoCog THEN 0 ELSE cog))
  IN  /\ calcOut' =
           [op |-> "steer", brg |-> brg, xte |-> xte, cog |-> cog,
            correctionH |-> xteCorrection(xte), cts |-> cts,
            shift |-> cts - (IF cog = NoCog THEN 0 ELSE cog),
            normalized |-> angleDiff,
            turn |-> Abs(angleDiff),
            direction |-> IF Abs(angleDiff) < 5 THEN "ON COURSE"
                          ELSE IF angleDiff > 0 THEN "STARBOARD" ELSE "PORT"]
      /\ UNCHANGED <<navVars, gpsVars, polarVars, weatherVars>>

\* a > b for two quotients with positive denominators
QGt(a, b) == a[1] * b[2] > b[1] * a[2]

\* BoatPolar.calculateVMG: boatSpeed * cos(|twa - targetAngle|), a quotient
Polar_calculateVMG(polar, trueWindSpeed, trueWindAngle, targetAngle) ==
  LET boatSpeed == getBoatSpeed(polar, trueWindSpeed, trueWindAngle)
      angleDiff == Abs(trueWindAngle - targetAngle)
  IN  <<boatSpeed[1] * Cos(2 * angleDiff), boatSpeed[2]>>

RECURSIVE BestUpwindLast(_, _, _, _, _)
BestUpwindLast(polar, trueWindSpeed, targetAngle, i, best) ==
  IF i > Len(polar.angles) THEN best
  ELSE LET angle == polar.angles[i]
           vmg == Polar_calculateVMG(polar, trueWindSpeed, angle, targetAngle)
       IN  IF angle < 90 /\ angle > 30 /\ ~QGt(best[2], vmg)
           THEN BestUpwindLast(polar, trueWindSpeed, targetAngle, i + 1, <<angle, vmg>>)
           ELSE BestUpwindLast(polar, trueWindSpeed, targetAngle, i + 1, best)
RECURSIVE BestUpwind(_, _, _, _, _)
\* The loop of findOptimalVMGAngles from the i-th angle on, for the upwind
\* side: best is <<angle, vmg>>, vmg a quotient
BestUpwind(polar, trueWindSpeed, targetAngle, i, best) ==
  IF i > Len(polar.angles) THEN best
  ELSE LET angle == polar.angles[i]
           vmg == Polar_calculateVMG(polar, trueWindSpeed, angle, targetAngle)
       IN  IF angle < 90 /\ angle > 30 /\ QGt(vmg, best[2])
           THEN BestUpwind(polar, trueWindSpeed, targetAngle, i + 1, <<angle, vmg>>)
           ELSE BestUpwind(polar, trueWindSpeed, targetAngle, i + 1, best)

RECURSIVE BestDownwind(_, _, _, _, _)
\* The same loop for the downwind side
BestDownwind(polar, trueWindSpeed, targetAngle, i, best) ==
  IF i > Len(polar.angles) THEN best
  ELSE LET angle == polar.angles[i]
           downwindVMG ==
             Polar_calculateVMG(polar, trueWindSpeed, angle, targetAngle + 180)
       IN  IF angle > 90 /\ angle < 180 /\ QGt(downwindVMG, best[2])
           THEN BestDownwind(polar, trueWindSpeed, targetAngle, i + 1,
                             <<angle, downwindVMG>>)
           ELSE BestDownwind(polar, trueWindSpeed, targetAngle, i + 1, best)

\* BoatPolar.findOptimalVMGAngles
findOptimalVMGAngles(polar, trueWindSpeed, targetAngle) ==
  LET up == BestUpwind(polar, trueWindSpeed, targetAngle, 1, <<45, <<0, 1>> >>)
      down == BestDownwind(polar, trueWindSpeed, targetAngle, 1, <<135, <<0, 1>> >>)
  IN  [upwind |-> [angle |-> up[1], vmg |-> up[2]],
       downwind |-> [angle |-> down[1], vmg |-> down[2]]]

\* findOptimalVMGAngles called on a table for a wind speed and a target angle
FindOptimalVMGAngles(polar, trueWindSpeed, targetAngle) ==
  LET r == findOptimalVMGAngles(polar, trueWindSpeed, targetAngle)
  IN  /\ calcOut' = [op |-> "optimal", polar |-> polar, tws |-> trueWindSpeed,
                     target |-> targetAngle, upwind |-> r.upwind,
                     downwind |-> r.downwind]
      /\ UNCHANGED <<navVars, gpsVars, polarVars, weatherVars>>

\* part_000:74-75: the port and starboard layline bearings
LaylineBearingsNoWrap(twd, angle) ==
  [port |-> JsRem(twd + angle, 360), starboard |-> JsRem(twd - angle, 360)]
LaylineBearings(twd, angle) ==
  [port |-> JsRem(twd + angle, 360), starboard |-> JsRem(twd - angle + 360, 360)]

\* WindCalculator.calculateLaylines with trueWindDirection = twd and
\* trueWindSpeed = tws: the bearings, angle and vmg of the result
CalculateLaylines(twd, tws, polar) ==
  LET upwind == findOptimalVMGAngles(polar, tws, 0).upwind
      b == LaylineBearings(twd, upwind.angle)
  IN  /\ calcOut' =
           [op |-> "laylines", twd |-> twd, angle |-> upwind.angle,
            vmg |-> upwind.vmg, port |-> b.port, starboard |-> b.starboard]
      /\ UNCHANGED <<navVars, gpsVars, polarVars, weatherVars>>

CalcInit == calcOut = NoCalcOut

Sogs == {NoSog, 0, 58}
Cogs == {NoCog, 90, 359}
BearingsH == {0, 1, 181, 539, 719}
Distances == {0, 50, 6000}
WindDirections == {0, 45, 90, 180, 271, 359}
Headings == {0, 1, 180, 225, 270, 359}
Brgs == {0, 1, 180, 359}
Xtes == {-100, -10, -8, -1, 0, 1, 8, 10, 59, 61}
\* A custom table whose only upwind sample is at angle a
UpwindTable(a) == [SmallTable EXCEPT !.angles = <<0, a, 180>>]
LaylinePolars ==
  {generatePolarFromLength(40, "catamaran"), generatePolarFromLength(30, "monohull"),
   SmallTable, UpwindTable(31), UpwindTable(60), UpwindTable(89)}

\* A custom table with equal speeds at 40 and 50 and at 120 and 150 degrees
TieTable ==
  [SmallTable EXCEPT !.angles = <<0, 40, 50, 120, 150, 180>>,
                     !.rows = << <<0, 500, 500, 600, 600, 300>>,
                                 <<0, 800, 800, 900, 900, 600>> >>]
VmgPolars == LaylinePolars \cup {TieTable}
VmgWindSpeeds == {10, 12}
TargetAngles == {0, 45, 90, 135, 180, 225, 270, 315}

CalcNext ==
  \/ \E d \in Distances, sog \in Sogs, cog \in Cogs, b \in BearingsH,
        e \in CosResidues : CalculateETA(d, sog, cog, b, e)
  \/ \E twd \in WindDirections, prev \in Headings : GetWindShift(twd, prev)
  \/ \E twd \in WindDirections, h \in Headings : GetTrueWindAngle(twd, h)
  \/ \E brg \in Brgs, xte \in Xtes, cog \in Cogs \cup {0, 180} :
        UpdateSteeringDisplay(brg, xte, cog)
  \/ \E twd \in WindDirections, polar \in LaylinePolars :
        CalculateLaylines(twd, 10, polar)

VmgNext ==
  \E polar \in VmgPolars, tws \in VmgWindSpeeds, target \in TargetAngles :
    FindOptimalVMGAngles(polar, tws, target)

-----------------------------------------------------------------------------
(* SailNavApp: automatic weather fetch *)

WeatherInterval == 3     \* 3 * 60 * 60 * 1000 ms, in hours
NoFetchTime == 0         \* lastWeatherFetch before any fetch has completed

\* part_004:412, the test made on a fix at clock reading now
WeatherDue(last, now) == last = NoFetchTime \/ now - last > WeatherInterval

\* The listener of SailNavApp.setupGPS for a fix at pos: stores the position,
\* starts a weather fetch when one is due (fetchWeatherData runs up to its
\* await) and asks Navigation for the navigation data
GpsListener(pos) ==
  /\ Len(fetchStarts) < MaxFetches
  /\ ListenerUpdate(pos)
  /\ IF WeatherDue(lastWeatherFetch, weatherClock)
     THEN /\ weatherPending' = weatherPending + 1
          /\ fetchStarts' = Append(fetchStarts, weatherClock)
     ELSE UNCHANGED <<weatherPending, fetchStarts>>
  /\ UNCHANGED <<weatherClock, lastWeatherFetch>>
  /\ UNCHANGED <<gpsVars, polarVars, calcVars>>

\* SailNavApp.fetchWeatherData after its await: the fetch has completed
FetchComplete ==
  /\ weatherPending > 0
  /\ weatherPending' = weatherPending - 1
  /\ lastWeatherFetch' = weatherClock
  /\ UNCHANGED <<weatherClock, fetchStarts>>
  /\ UNCHANGED <<navVars, gpsVars, polarVars, calcVars>>

\* Date.now() moves on by an hour
Tick ==
  /\ weatherClock < MaxClock
  /\ weatherClock' = weatherClock + 1
  /\ UNCHANGED <<lastWeatherFetch, weatherPending, fetchStarts>>
  /\ UNCHANGED <<navVars, gpsVars, polarVars, calcVars>>

WeatherInit ==
  /\ weatherClock = 1
  /\ lastWeatherFetch = NoFetchTime
  /\ weatherPending = 0
  /\ fetchStarts = <<>>

WeatherNext ==
  \/ \E pos \in BoatPoints : GpsListener(pos)
  \/ FetchComplete
  \/ Tick

-----------------------------------------------------------------------------
(* Navigation: saving and loading a route *)

\* Clock readings of the waypoints of SpecRoute, and the waypoint added at
\* reading t
RouteTimes == {0, 1, 2}
RouteWaypoint(t) == [id |-> t, lat |-> 0, lon |-> 100 * t]

\* A route record: hasWaypoints and hasIndex tell whether the property is
\* there with a value other than undefined
\* Navigation.getRoute
getRoute(wps, idx) ==
  [hasWaypoints |-> TRUE, waypoints |-> wps,
   hasIndex |-> TRUE, activeWaypointIndex |-> idx]

\* Storage.saveRoute, then Storage.loadRoute or getAllRoutes: the record that
\* comes back, as far as Navigation reads it
saveRoute(route) ==
  [route EXCEPT !.hasIndex = TRUE,
                !.activeWaypointIndex =
                   IF route.hasIndex THEN route.activeWaypointIndex ELSE 0]

\* Navigation.loadRoute: <<waypoints, activeWaypointIndex>> after the call
loadRoute(route) ==
  << IF route.hasWaypoints THEN route.waypoints ELSE <<>>,
     IF route.hasIndex THEN route.activeWaypointIndex ELSE 0 >>

\* Route records Storage.importRoutes takes from a file and saves as they are
ImportedRoutes ==
  { [hasWaypoints |-> TRUE, waypoints |-> <<RouteWaypoint(0), RouteWaypoint(1)>>,
     hasIndex |-> TRUE, activeWaypointIndex |-> 5],
    [hasWaypoints |-> TRUE, waypoints |-> <<RouteWaypoint(0), RouteWaypoint(1)>>,
     hasIndex |-> TRUE, activeWaypointIndex |-> 1],
    [hasWaypoints |-> TRUE, waypoints |-> <<RouteWaypoint(2)>>,
     hasIndex |-> FALSE, activeWaypointIndex |-> 0],
    [hasWaypoints |-> FALSE, waypoints |-> <<>>,
     hasIndex |-> TRUE, activeWaypointIndex |-> 2] }

\* SailNavApp.loadRoute for a record read back from storage
LoadRoute(route) ==
  LET r == loadRoute(route)
  IN  /\ waypoints' = r[1]
      /\ activeWaypointIndex' = r[2]
      /\ navOut' = [NoNavOut EXCEPT !.ret = "loaded"]
      /\ UNCHANGED currentPosition

\* A route from an imported file is loaded
LoadStoredRoute(route) ==
  /\ LoadRoute(saveRoute(route))
  /\ UNCHANGED <<gpsVars, polarVars, calcVars, weatherVars>>

\* SailNavApp.saveRoute and then loadRoute of the record just saved
ReloadRoute ==
  /\ LoadRoute(saveRoute(getRoute(waypoints, activeWaypointIndex)))
  /\ UNCHANGED <<gpsVars, polarVars, calcVars, weatherVars>>

RouteNext ==
  \/ \E t \in RouteTimes :
       AddWaypoint(RouteWaypoint(t).lat, RouteWaypoint(t).lon, t)
  \/ \E id \in RouteTimes : RemoveWaypoint(id)
  \/ \E index \in 0..(MaxWaypoints - 1) : SetActiveWaypoint(index)
  \/ \E route \in ImportedRoutes : LoadStoredRoute(route)
  \/ ReloadRoute

-----------------------------------------------------------------------------
(* Specifications *)

vars == <<waypoints, activeWaypointIndex, currentPosition, navOut,
          position, previousPosition, watchId, listeners, trackHistory,
          sogBuffer, cogBuffer, watches, watchCount, pending, fixCount,
          gpsOut, processed,
          boatLength, boatType, polarData, customPolar, polarOut, calcOut,
          weatherClock, lastWeatherFetch, weatherPending, fetchStarts>>

Init == NavInit /\ GpsInit /\ PolarInit /\ CalcInit /\ WeatherInit

\* Route editing and position updates
SpecNav == Init /\ [][NavNext]_vars
\* The application's GPS wiring: watches, platform fixes, errors
SpecGPS == Init /\ [][GpsNext]_vars
\* A run of fixes through the smoother
SpecSmooth == Init /\ [][SmoothStep]_vars
\* A run of more than maxTrackPoints fixes
SpecTrack == Init /\ [][TrackStep]_vars
\* The polar table: regeneration, import, lookup
SpecPolar == Init /\ [][PolarNext]_vars
\* Navigation, wind and steering calculations
SpecCalc == Init /\ [][CalcNext]_vars
\* Optimal VMG angles of a polar table
SpecVmg == Init /\ [][VmgNext]_vars
\* Route editing, saving and loading
SpecRoute == Init /\ [][RouteNext]_vars
\* The GPS listener and the weather fetches it starts
SpecWeather == Init /\ [][WeatherNext]_vars

-----------------------------------------------------------------------------
(* Route properties *)

\* C1: the active index is a valid index of a non-empty route and 0 for an
\* empty one, after any sequence of route operations and position updates
C1_RouteInvariant ==
  IF Len(waypoints) = 0
  THEN activeWaypointIndex = 0
  ELSE 0 <= activeWaypointIndex /\ activeWaypointIndex < Len(waypoints)

\* The reaching check has just moved the active index onto the last of three
\* waypoints
C1_Witness ==
  /\ Len(waypoints) = 3
  /\ navOut.ret = "data"
  /\ navOut.activeIndex = navOut.legIndex + 1
  /\ activeWaypointIndex = 2

\* C2: in calculateNavigationData, a distance below 0.05 nm to the active
\* waypoint advances the index by exactly one unless that waypoint is the
\* last, where it stays; a distance of 0.05 nm or more leaves the index alone
C2_ReachingCheck ==
  navOut.ret = "data" =>
    /\ (navOut.dist < ReachRadius /\ navOut.legIndex < navOut.totalWaypoints - 1)
          => navOut.activeIndex = navOut.legIndex + 1
    /\ (navOut.dist < ReachRadius /\ navOut.legIndex = navOut.totalWaypoints - 1)
          => navOut.activeIndex = navOut.legIndex
    /\ navOut.dist >= ReachRadius => navOut.activeIndex = navOut.legIndex

\* With A, B, C and B active, reaching B makes C active
C2_Witness ==
  /\ navOut.ret = "data"
  /\ navOut.totalWaypoints = 3
  /\ navOut.dist < ReachRadius
  /\ navOut.legIndex = 1
  /\ navOut.activeIndex = 2

-----------------------------------------------------------------------------
(* GPS properties *)

\* C3: whenever the smoothed sog of a fix is at most 0.5 kn, the smoothed cog
\* is the raw cog of the latest earlier fix whose raw sog was above 0.5 kn, if
\* any fix handled so far had one, and the raw cog of the fix itself otherwise
C3_CogFreeze ==
  (gpsOut.kind = "data" /\ gpsOut.sogSum <= MovingThreshold * gpsOut.weightSum) =>
    LET n == Len(processed)
        earlier == {i \in 1..(n - 1) : processed[i].rawSog > MovingThreshold}
    IN  IF earlier = {} THEN gpsOut.smoothedCog = gpsOut.rawCog
        ELSE gpsOut.smoothedCog =
               processed[CHOOSE i \in earlier : \A j \in earlier : j <= i].rawCog

\* C7: every fix handlePosition handles is strictly later than the one before
\* it, so the track history is strictly increasing in time
C7_FixOrdering ==
  /\ previousPosition # NoFix => position.timestamp > previousPosition.timestamp
  /\ \A i \in 1..(Len(trackHistory) - 1) :
        trackHistory[i].timestamp < trackHistory[i + 1].timestamp

\* C8: after n fixes the track history holds the latest min(n, 1000) of them
\* in arrival order
C8_TrackFifo ==
  LET n == Len(processed)
      m == Min(n, maxTrackPoints)
  IN  /\ Len(trackHistory) = m
      /\ \A i \in 1..m :
            trackHistory[i] =
              [lat |-> processed[n - m + i].lat, lon |-> processed[n - m + i].lon,
               timestamp |-> processed[n - m + i].timestamp]

\* More fixes than the history holds have been handled: the oldest is gone
C8_Witness ==
  /\ Len(processed) > maxTrackPoints
  /\ Len(trackHistory) = maxTrackPoints
  /\ trackHistory[1].timestamp = processed[Len(processed) - maxTrackPoints + 1].timestamp

\* C9: the cog handed to the listeners is a whole number of degrees in 0..359
C9_CogRange ==
  gpsOut.kind = "data" => (gpsOut.cog >= 0 /\ gpsOut.cog <= 359)

-----------------------------------------------------------------------------
(* Polar properties *)

\* C4: for a wind speed below the lowest or above the highest key of the active
\* table, getBoatSpeed returns the angle-interpolated value of the nearest
\* boundary row alone
C4_ClampToBoundaryRow ==
  LET polar == getCurrentPolar(customPolar, polarData)
      n == Len(polar.keys)
  IN  polarOut.op = "speed" =>
        /\ polarOut.tws < polar.keys[1] =>
              QEq(polarOut.value,
                  interpolateAngle(polar.rows[1], polar.angles,
                                   NormalizedAngle(polarOut.twa)))
        /\ polarOut.tws > polar.keys[n] =>
              QEq(polarOut.value,
                  interpolateAngle(polar.rows[n], polar.angles,
                                   NormalizedAngle(polarOut.twa)))

\* C5: the active table is rectangular: every row of speeds is as long as angles
C5_Rectangular == Rectangular(getCurrentPolar(customPolar, polarData))

\* C6: importPolar of an input that is not valid JSON, or parses to a value
\* lacking name, angles or speeds, returns false and leaves the active table
\* as it was before the call
C6_RejectedImportKeepsTable ==
  LET p == JSONParse(polarOut.doc)
      lacking == \/ ~p.ok
                 \/ p.value.kind # "object"
                 \/ ~({"name", "angles", "speeds"} \subseteq p.value.has)
  IN  (polarOut.op = "import" /\ lacking) =>
        /\ polarOut.ret = FALSE
        /\ getCurrentPolar(customPolar, polarData) = polarOut.before

\* An import without speeds was rejected while an imported table was active
C6_Witness ==
  /\ polarOut.op = "import"
  /\ polarOut.doc = "noSpeeds"
  /\ polarOut.ret = FALSE
  /\ customPolar = SmallTable

-----------------------------------------------------------------------------
(* Waypoint identity *)

\* C10: the waypoints of the route carry pairwise different ids
C10_UniqueIds ==
  \A i, j \in 1..Len(waypoints) : i # j => waypoints[i].id # waypoints[j].id

-----------------------------------------------------------------------------
(* Active polar after setBoatLength *)

\* C11: right after setBoatLength(length, type) the active table is the table
\* generated for that length and type, whatever was set or imported before
C11_LengthSelectsGenerated ==
  polarOut.op = "length" =>
    getCurrentPolar(customPolar, polarData) =
      generatePolarFromLength(boatLength, boatType)

-----------------------------------------------------------------------------
(* Sensor errors *)

\* C12: a step that hands the listeners an error record leaves position,
\* previousPosition, trackHistory, sogBuffer and cogBuffer as they were, so
\* the next fix is smoothed from the same state
C12_ErrorKeepsSmootherState ==
  [][gpsOut'.kind = "error" =>
       UNCHANGED <<position, previousPosition, trackHistory, sogBuffer,
                   cogBuffer>>]_vars

\* An error was reported to a registered listener after fixes had been handled
C12_Witness ==
  /\ gpsOut.kind = "error"
  /\ listeners > 0
  /\ Len(sogBuffer) > 0
  /\ previousPosition # NoFix

-----------------------------------------------------------------------------
(* Smoothed sog *)

-----------------------------------------------------------------------------
(* Raw cog and raw sog of a fix *)

\* C14: the raw cog of a fix is the device heading whenever the device gives
\* one, a heading of exactly 0 included; else the bearing from the previous
\* fix when there is one; else 0
C14_RawCogSelection ==
  gpsOut.kind = "data" =>
    gpsOut.rawCog =
      IF position.heading # NoHeading THEN position.heading
      ELSE IF previousPosition # NoFix
           THEN GPS_calculateBearing(<<previousPosition.lat, previousPosition.lon>>,
                                     <<position.lat, position.lon>>)
           ELSE 0

\* C15: the raw sog of a fix is the device speed in knots whenever the device
\* gives one; else distance over elapsed time when a previous fix exists and
\* the elapsed time is positive; else exactly 0, with no division
C15_RawSogSelection ==
  gpsOut.kind = "data" =>
    LET dt == position.timestamp - previousPosition.timestamp
        distance == GPS_calculateDistance(
                      <<previousPosition.lat, previousPosition.lon>>,
                      <<position.lat, position.lon>>)
    IN  gpsOut.rawSog =
          IF position.speed # NoSpeed THEN ToKnots(position.speed)
          ELSE IF previousPosition # NoFix /\ dt > 0
               THEN ToKnots((distance * 1000) \div dt)
               ELSE 0

\* A fix without device speed that is no later than the one before it
C15_Witness ==
  /\ gpsOut.kind = "data"
  /\ position.speed = NoSpeed
  /\ previousPosition # NoFix
  /\ position.timestamp <= previousPosition.timestamp
  /\ gpsOut.rawSog = 0

-----------------------------------------------------------------------------
(* Time of arrival *)

\* C16: calculateETA gives the sentinel exactly when vmg <= 0, which covers
\* a sog that is 0 or absent and a course more than 90 degrees off the
\* bearing; otherwise it divides by a vmg that is positive
C16_EtaSentinel ==
  calcOut.op = "eta" =>
    LET d == (2 * (IF calcOut.cog = NoCog THEN 0 ELSE calcOut.cog)
                - calcOut.bearingH) % 720
        offH == Min(d, 720 - d)
    IN  /\ calcOut.eta.sentinel <=> calcOut.vmg <= 0
        /\ ~calcOut.eta.sentinel =>
              (calcOut.eta.den = calcOut.vmg /\ calcOut.eta.den > 0)
        /\ (calcOut.sog = NoSog \/ calcOut.sog = 0) => calcOut.eta.sentinel
        /\ (calcOut.sog > 0 /\ offH > 180) => calcOut.eta.sentinel

\* Under way on a course more than 90 degrees off the bearing: no arrival time
C16_Witness ==
  /\ calcOut.op = "eta"
  /\ calcOut.sog > 0
  /\ calcOut.vmg < 0
  /\ calcOut.distance > 0
  /\ calcOut.eta.sentinel

-----------------------------------------------------------------------------
(* Sampled points of the polar *)

\* C17: for a wind speed that is a key of the active table and a wind angle
\* that is one of its sampled angles, getBoatSpeed returns the entry of that
\* row at that angle
C17_ExactAtSamples ==
  polarOut.op = "speed" =>
    LET polar == getCurrentPolar(customPolar, polarData)
    IN  \A j \in 1..Len(polar.keys), k \in 1..Len(polar.angles) :
          (polarOut.tws = polar.keys[j] /\ polarOut.twa = polar.angles[k])
            => QEq(polarOut.value, <<polar.rows[j][k], 1>>)

\* The generated table asked at an interior key and an interior angle
C17_Witness ==
  /\ polarOut.op = "speed"
  /\ customPolar = NullValue
  /\ polarOut.tws = polarData.keys[2]
  /\ polarOut.twa = polarData.angles[6]
  /\ polarOut.value[1] > 0

-----------------------------------------------------------------------------
(* Angles *)

\* C18: every signed normalisation (wind shift, true-wind angle before the
\* absolute value, steering angle) gives a value in (-180, 180], and the
\* layline bearings are in [0, 360)
C18_AngleRanges ==
  /\ calcOut.op \in {"windShift", "trueWindAngle", "steer"} =>
        (calcOut.normalized > -180 /\ calcOut.normalized <= 180)
  /\ (calcOut.op = "laylines" /\ calcOut.twd \in 0..359) =>
        (calcOut.port \in 0..359 /\ calcOut.starboard \in 0..359)

\* C19: for a wind direction in [0, 360) and an optimal upwind angle in
\* (0, 90], the port layline bears (windDir + angle) mod 360 and the starboard
\* layline (windDir - angle) mod 360, both in [0, 360); 045 and 315 for wind
\* from 000 and angle 45
C19_LaylineBearings ==
  (calcOut.op = "laylines" /\ calcOut.twd \in 0..359 /\ calcOut.angle \in 1..90) =>
    /\ calcOut.port = (calcOut.twd + calcOut.angle) % 360
    /\ calcOut.starboard = (calcOut.twd - calcOut.angle) % 360
    /\ calcOut.port \in 0..359
    /\ calcOut.starboard \in 0..359
    /\ (calcOut.twd = 0 /\ calcOut.angle = 45) =>
          (calcOut.port = 45 /\ calcOut.starboard = 315)

\* Wind from 000 and an optimal upwind angle of 45: laylines 045 and 315
C19_Witness ==
  /\ calcOut.op = "laylines"
  /\ calcOut.twd = 0
  /\ calcOut.angle = 45
  /\ calcOut.port = 45
  /\ calcOut.starboard = 315

\* C20: the course to steer shown is brg + clamp(xte * 50, -30, +30) reduced
\* modulo 360 to a whole number in 0..359, the correction being at most 30
\* degrees either way
C20_CourseToSteer ==
  calcOut.op = "steer" =>
    LET corrH == Min(Max(calcOut.xte, -60), 60)
    IN  /\ calcOut.cts \in 0..359
        /\ calcOut.cts = RoundAngle((2 * calcOut.brg + corrH) % 720) % 360
        /\ Abs(calcOut.correctionH) <= 60

-----------------------------------------------------------------------------
(* Turn instruction *)

\* C21: with d the difference course-to-steer minus cog taken modulo 360,
\* the display shows ON COURSE exactly when the shortest difference is
\* under 5 degrees, else a turn of the shortest difference to starboard
\* when it is positive (d < 180) and to port when it is negative (d > 180);
\* the turn shown never exceeds 180
C21_TurnInstruction ==
  calcOut.op = "steer" =>
    LET d == (calcOut.cts - (IF calcOut.cog = NoCog THEN 0 ELSE calcOut.cog)) % 360
        size == Min(d, 360 - d)
    IN  /\ calcOut.direction = "ON COURSE" <=> size < 5
        /\ (size >= 5 /\ d < 180) =>
              (calcOut.direction = "STARBOARD" /\ calcOut.turn = size)
        /\ (size >= 5 /\ d > 180) =>
              (calcOut.direction = "PORT" /\ calcOut.turn = size)
        /\ calcOut.turn <= 180

\* A turn of 5 degrees to port: course to steer 354, cog 359
C21_Witness ==
  /\ calcOut.op = "steer"
  /\ calcOut.cts < calcOut.cog
  /\ calcOut.shift = -5
  /\ calcOut.direction = "PORT"
  /\ calcOut.turn = 5

-----------------------------------------------------------------------------
(* Leg-proximity retargeting *)

C23_NoRetargetBack ==
  [][(/\ navOut.ret = "data"
      /\ navOut.totalWaypoints = 3
      /\ navOut.legIndex = 1
      /\ navOut.activeIndex = 2
      /\ navOut'.ret = "data"
      /\ currentPosition' = currentPosition)
     => (/\ navOut'.legIndex = 2
         /\ navOut'.waypointId = waypoints[3].id
         /\ navOut'.dtw = RoundDiv(calculateDistance(currentPosition,
                                                     WptPos(waypoints[3])), 100))]_vars

\* C24: every non-null result of calculateNavigationData is self-consistent:
\* the waypoint it reports is the one at its own activeIndex, and dtw is the
\* distance to that waypoint, also on the update where the reaching check fires
C24_OutputSelfConsistent ==
  navOut.ret = "data" =>
    /\ navOut.waypointAt = navOut.activeIndex
    /\ navOut.dtw = RoundDiv(calculateDistance(currentPosition,
                                WptPos(waypoints[navOut.activeIndex + 1])), 100)

-----------------------------------------------------------------------------
(* Smoothing buffers *)

\* C25: sogBuffer and cogBuffer always have the same length, and once 2 x window
\* fixes have been handled they hold the raw sog and raw cog of at least the
\* 2 x window latest fixes, entry for entry, for the window of 3 and of 10
C25_BufferRetention ==
  /\ Len(sogBuffer) = Len(cogBuffer)
  /\ \A w \in {LightWindow, HeavyWindow} :
       Len(processed) >= 2 * w =>
         /\ Len(sogBuffer) >= 2 * w
         /\ \A k \in 0..(2 * w - 1) :
              /\ sogBuffer[Len(sogBuffer) - k] = processed[Len(processed) - k].rawSog
              /\ cogBuffer[Len(cogBuffer) - k] = processed[Len(processed) - k].rawCog

-----------------------------------------------------------------------------
(* Weather fetch throttling *)

\* C26: over any interleaving of GPS fixes and fetch completions, no weather
\* fetch is started while an earlier one is in flight, and any two fetches are
\* started at least 3 hours apart
C26_FetchThrottle ==
  /\ weatherPending <= 1
  /\ \A i, j \in DOMAIN fetchStarts :
       i < j => fetchStarts[j] - fetchStarts[i] >= WeatherInterval

-----------------------------------------------------------------------------
(* GPS watch lifecycle *)

\* C27: at most one geolocation watch is registered at any time, every queued
\* callback of a fix belongs to a different fix, and once stop() has run
\* (watchId is null) no watch remains registered and no callback is pending
C27_SingleWatch ==
  /\ Cardinality(watches) <= 1
  /\ \A i, j \in DOMAIN pending :
       i # j => pending[i].fix.timestamp # pending[j].fix.timestamp
  /\ watchId = 0 => (watches = {} /\ pending = <<>>)

-----------------------------------------------------------------------------
(* Route editing and loading *)

\* C28: when removeWaypoint removes a waypoint other than the active one from a
\* route whose ids are all different, getActiveWaypoint() returns the same
\* waypoint after the call as before it
C28_RemoveKeepsActive ==
  [][\A i \in 1..Len(waypoints) :
       (/\ navOut'.ret = "none"
        /\ \A a, b \in 1..Len(waypoints) : a # b => waypoints[a].id # waypoints[b].id
        /\ waypoints' = Splice(waypoints, i)
        /\ getActiveWaypoint(waypoints, activeWaypointIndex) # 0
        /\ i # getActiveWaypoint(waypoints, activeWaypointIndex))
       => (/\ getActiveWaypoint(waypoints', activeWaypointIndex') # 0
           /\ waypoints'[getActiveWaypoint(waypoints', activeWaypointIndex')].id
                = waypoints[getActiveWaypoint(waypoints, activeWaypointIndex)].id)]_vars

\* C29: after loadRoute of any stored route record the route invariant holds:
\* 0 <= activeWaypointIndex < waypoints.length, or activeWaypointIndex = 0
\* for an empty list
C29_LoadKeepsInvariant ==
  navOut.ret = "loaded" =>
    IF Len(waypoints) = 0 THEN activeWaypointIndex = 0
    ELSE 0 <= activeWaypointIndex /\ activeWaypointIndex < Len(waypoints)

-----------------------------------------------------------------------------
(* Optimal VMG angles *)

\* C30: when some sampled angle strictly between 30 and 90 has a VMG
\* speed * cos(angle - target) above 0, findOptimalVMGAngles returns upwind the
\* first sampled angle of that range whose VMG no other angle of the range
\* exceeds, with that VMG, and otherwise the default 45; downwind likewise
\* for the sampled angles strictly between 90 and 180 against target + 180,
\* with the default 135
C30_OptimalAngles ==
  calcOut.op = "optimal" =>
    LET polar == calcOut.polar
        n == Len(polar.angles)
        Up == {i \in 1..n : polar.angles[i] > 30 /\ polar.angles[i] < 90}
        Down == {i \in 1..n : polar.angles[i] > 90 /\ polar.angles[i] < 180}
        V(i, t) == Polar_calculateVMG(polar, calcOut.tws, polar.angles[i], t)
        Best(S, t, out, default) ==
          IF \E i \in S : QGt(V(i, t), <<0, 1>>)
          THEN \E i \in S :
                 /\ out.angle = polar.angles[i]
                 /\ out.vmg = V(i, t)
                 /\ \A j \in S : ~QGt(V(j, t), V(i, t))
                 /\ \A j \in S : j < i => QGt(V(i, t), V(j, t))
          ELSE out.angle = default
    IN  /\ Best(Up, calcOut.target, calcOut.upwind, 45)
        /\ Best(Down, calcOut.target + 180, calcOut.downwind, 135)
\* Two upwind samples tie for the best VMG and the first of them is returned,
\* while downwind only the second sample has a positive VMG
C30_Witness ==
  /\ calcOut.op = "optimal"
  /\ calcOut.polar = TieTable
  /\ calcOut.target = 45
  /\ calcOut.upwind.angle = 40
  /\ calcOut.downwind.angle = 150

=============================================================================
